---- MODULE Spec2Model ----
(***************************************************************************)
(* A model of the Product Scene Generator front end: the App component     *)
(* (src/App.tsx) and the ImageUploader component (src/unnamed/part_000).   *)
(*                                                                         *)
(* React state is modelled by one variable per useState cell.  Every event *)
(* handler runs to completion and the component re-renders before the next *)
(* event is delivered, so the closures of the handlers see the current     *)
(* state, except for a handleGenerate invocation suspended at an await,    *)
(* which keeps the values it captured when it was called.                  *)
(*                                                                         *)
(* An optional value (T | null) is a sequence of length at most one.       *)
(***************************************************************************)
EXTENDS Naturals, Sequences, FiniteSets

\* ------------------------------------------------------------------ bounds
\* most FileReader reads pending in one ImageUploader at a time
MaxReads == 1
\* most handleGenerate invocations suspended at an await at a time
MaxPending == 2

\* ------------------------------------------------------------------ values
null == <<>>

Some(x) == <<x>>

\* the texts typed into the subject and scene fields, as character sequences:
\* empty, blank, a word, and a word between blanks
Texts == { <<>>, <<" ">>, <<"a">>, <<" ", "b", " ">> }

\* File objects: a name and a MIME type "<category>/<subtype>"
Files ==
  { [name |-> "cat.png",      type |-> <<"image", "png">>],
    [name |-> "logo.png",     type |-> <<"image", "png">>],
    [name |-> "document.pdf", type |-> <<"application", "pdf">>] }

\* file.type.startsWith('image/')
StartsWithImage(type) == type[1] = "image"

ImageFiles == {f \in Files : StartsWithImage(f.type)}

\* FileReader.readAsDataURL: a data URI naming the MIME type and the content
ReadAsDataURL(f) == [mime |-> f.type, base64 |-> f.name]

\* fileToBase64 of utils/fileUtils
fileToBase64(f) == ReadAsDataURL(f)

\* what generateProductScene can resolve with
Payloads == {"scene1.b64", "scene2.b64"}

\* what an await can throw: an Error with a message, or a value that is no Error
Failures ==
  { [isError |-> TRUE,  message |-> "quota exceeded"],
    [isError |-> FALSE, message |-> ""] }

ValidationMsg == "Please fill in all fields and upload both images."

FallbackMsg == "An unknown error occurred. Check the console for details."

\* the two ImageUploader instances of App, by id
Pickers == {"product-image", "logo-image"}

\* String.prototype.trim
RECURSIVE TrimStart(_)
TrimStart(s) == IF s # <<>> /\ Head(s) = " " THEN TrimStart(Tail(s)) ELSE s

RECURSIVE TrimEnd(_)
TrimEnd(s) ==
  IF s # <<>> /\ s[Len(s)] = " " THEN TrimEnd(SubSeq(s, 1, Len(s) - 1)) ELSE s

Trim(s) == TrimEnd(TrimStart(s))

\* JavaScript truthiness of a string | null held as an optional
Truthy(opt) == opt # null /\ opt[1] # ""

\* ------------------------------------------------------------------ state
VARIABLES
  productImage,    \* App: File | null
  logoImage,       \* App: File | null
  subject,         \* App: string
  scene,           \* App: string
  generatedImage,  \* App: string | null
  isLoading,       \* App: boolean
  error,           \* App: string | null
  tasks,           \* the suspended invocations of handleGenerate, in call order
  preview,         \* ImageUploader: string | null, per instance
  inputFiles,      \* the <input type="file"> element's files[0], per instance
  readers,         \* the FileReaders whose read is pending, per instance
  lastEvent        \* the event handled last and what its handler called

formVars == <<productImage, logoImage, subject, scene>>

resultVars == <<generatedImage, isLoading, error>>

pickerVars == <<preview, inputFiles, readers>>

vars == <<productImage, logoImage, subject, scene, generatedImage, isLoading,
          error, tasks, preview, inputFiles, readers, lastEvent>>

Init ==
  /\ productImage = null
  /\ logoImage = null
  /\ subject = <<>>
  /\ scene = <<>>
  /\ generatedImage = null
  /\ isLoading = FALSE
  /\ error = null
  /\ tasks = <<>>
  /\ preview = [p \in Pickers |-> null]
  /\ inputFiles = [p \in Pickers |-> null]
  /\ readers = [p \in Pickers |-> <<>>]
  /\ lastEvent = [kind |-> "mount"]

\* ------------------------------------------------------------------ App
isFormValid ==
  /\ productImage # null
  /\ logoImage # null
  /\ Trim(subject) # <<>>
  /\ Trim(scene) # <<>>

\* the result panel: which of its four blocks the render emits
ShowLoading == isLoading

ShowError == Truthy(error)

ShowResult == Truthy(generatedImage) /\ ~isLoading

ShowPlaceholder == ~isLoading /\ ~Truthy(error) /\ ~Truthy(generatedImage)

Shown ==
  {b \in {"loading", "error", "result", "placeholder"} :
     \/ b = "loading" /\ ShowLoading
     \/ b = "error" /\ ShowError
     \/ b = "result" /\ ShowResult
     \/ b = "placeholder" /\ ShowPlaceholder}

\* a button disabled only while the form is incomplete
SubmitDisabled_ValidityOnly == ~isFormValid

\* a button disabled only while loading
SubmitDisabled_LoadingOnly == isLoading

\* the disabled attribute of the Generate button
SubmitDisabled == ~isFormValid \/ isLoading

\* the invocation handleGenerate suspends at its first await: the values its
\* closure holds, the encodings it has awaited, the calls of
\* generateProductScene it has made and the arguments of the call
NewTask ==
  [pc |-> "encodeProduct",
   productImage |-> productImage, logoImage |-> logoImage,
   subject |-> subject, scene |-> scene,
   productB64 |-> null, logoB64 |-> null, calls |-> 0, args |-> null]

\* a submission that leaves the stored error in place
StartSubmission_KeepError ==
  /\ isLoading' = TRUE
  /\ UNCHANGED error
  /\ generatedImage' = null
  /\ tasks' = Append(tasks, NewTask)

\* a submission that leaves the stored result in place
StartSubmission_KeepResult ==
  /\ isLoading' = TRUE
  /\ error' = null
  /\ UNCHANGED generatedImage
  /\ tasks' = Append(tasks, NewTask)

\* handleGenerate up to its first await: the state the accepted call sets,
\* and the invocation that is now suspended in fileToBase64(productImage)
StartSubmission ==
  /\ isLoading' = TRUE
  /\ error' = null
  /\ generatedImage' = null
  /\ tasks' = Append(tasks, NewTask)

\* the onClick handler of the Generate button
handleGenerate ==
  IF ~isFormValid
  THEN /\ error' = Some(ValidationMsg)
       /\ UNCHANGED <<generatedImage, isLoading, tasks>>
  ELSE StartSubmission

\* a click on the Generate button: a disabled button dispatches no onClick;
\* lastEvent keeps the block the panel showed when the click came
ClickGenerate ==
  /\ UNCHANGED <<formVars, pickerVars>>
  /\ IF SubmitDisabled
     THEN /\ UNCHANGED <<resultVars, tasks>>
          /\ lastEvent' = [kind |-> "click", disabled |-> TRUE, shown |-> Shown]
     ELSE /\ Len(tasks) < MaxPending
          /\ handleGenerate
          /\ lastEvent' = [kind |-> "click", disabled |-> FALSE, shown |-> Shown]

\* an onChange that also dismisses the stored error
setSubject_ClearsError(t) ==
  /\ subject' = t
  /\ error' = null
  /\ UNCHANGED <<productImage, logoImage, scene, generatedImage, isLoading, tasks, pickerVars>>
  /\ lastEvent' = [kind |-> "input", field |-> "subject"]

\* onChange of the subject input
setSubject(t) ==
  /\ subject' = t
  /\ UNCHANGED <<productImage, logoImage, scene, resultVars, tasks, pickerVars>>
  /\ lastEvent' = [kind |-> "input", field |-> "subject"]

\* onChange of the scene textarea
setScene(t) ==
  /\ scene' = t
  /\ UNCHANGED <<productImage, logoImage, subject, resultVars, tasks, pickerVars>>
  /\ lastEvent' = [kind |-> "input", field |-> "scene"]

\* s without its k-th element
Remove(s, k) == SubSeq(s, 1, k - 1) \o SubSeq(s, k + 1, Len(s))

\* a catch block with no finally after it
Catch_NoFinally(i, err) ==
  /\ error' = Some(IF err.isError THEN err.message ELSE FallbackMsg)
  /\ UNCHANGED <<isLoading, generatedImage>>
  /\ tasks' = Remove(tasks, i)

\* a catch block that shows the fallback message whatever was thrown
Catch_AlwaysFallback(i, err) ==
  /\ error' = Some(FallbackMsg)
  /\ isLoading' = FALSE
  /\ UNCHANGED generatedImage
  /\ tasks' = Remove(tasks, i)

\* the catch and finally blocks of handleGenerate, for invocation i
Catch(i, err) ==
  /\ error' = Some(IF err.isError THEN err.message ELSE FallbackMsg)
  /\ isLoading' = FALSE
  /\ UNCHANGED generatedImage
  /\ tasks' = Remove(tasks, i)

\* a continuation that calls generateProductScene without encoding the logo
ProductEncoded_SkipsLogo(i) ==
  /\ tasks' = [tasks EXCEPT ![i].productB64 = Some(fileToBase64(tasks[i].productImage[1])),
                            ![i].calls = @ + 1,
                            ![i].pc = "generate"]
  /\ UNCHANGED resultVars

\* the continuation of invocation i after `await fileToBase64(productImage)`
ProductEncoded(i) ==
  /\ tasks' = [tasks EXCEPT ![i].productB64 = Some(fileToBase64(tasks[i].productImage[1])),
                            ![i].pc = "encodeLogo"]
  /\ UNCHANGED resultVars

\* the arguments of generateProductScene(productB64, logoB64, subject, scene)
CallArgs(productB64, logoB64, subjectText, sceneText) ==
  [productB64 |-> productB64, logoB64 |-> logoB64,
   subject |-> subjectText, scene |-> sceneText]

\* a continuation that passes the texts of the latest render to the call
LogoEncoded_CurrentTexts(i) ==
  /\ tasks' = [tasks EXCEPT ![i].logoB64 = Some(fileToBase64(tasks[i].logoImage[1])),
                            ![i].calls = @ + 1,
                            ![i].args = Some(CallArgs(tasks[i].productB64[1],
                                                      fileToBase64(tasks[i].logoImage[1]),
                                                      subject, scene)),
                            ![i].pc = "generate"]
  /\ UNCHANGED resultVars

\* the continuation after `await fileToBase64(logoImage)`: generateProductScene
\* is called before the invocation suspends again
LogoEncoded(i) ==
  /\ tasks' = [tasks EXCEPT ![i].logoB64 = Some(fileToBase64(tasks[i].logoImage[1])),
                            ![i].calls = @ + 1,
                            ![i].args = Some(CallArgs(tasks[i].productB64[1],
                                                      fileToBase64(tasks[i].logoImage[1]),
                                                      tasks[i].subject, tasks[i].scene)),
                            ![i].pc = "generate"]
  /\ UNCHANGED resultVars

\* a continuation that stores the result and leaves the loading flag set
Generated_KeepsLoading(i, resultImage) ==
  /\ generatedImage' = Some(resultImage)
  /\ UNCHANGED <<isLoading, error>>
  /\ tasks' = Remove(tasks, i)

\* the continuation after `await generateProductScene(...)`, and finally
Generated(i, resultImage) ==
  /\ generatedImage' = Some(resultImage)
  /\ isLoading' = FALSE
  /\ UNCHANGED error
  /\ tasks' = Remove(tasks, i)

\* what lastEvent records of a settled promise of an invocation: the await it
\* was suspended at, the outcome, and the calls of generateProductScene the
\* invocation has made once the continuation has run
Settled(step, ok, value, calls, finished) ==
  [kind |-> "settled", step |-> step, ok |-> ok, value |-> value,
   calls |-> calls, finished |-> finished]

\* encodes whose rejection is caught on the spot, the invocation going on
\* without the encoding
EncodeSettles_SwallowsFailure(i) ==
  /\ tasks[i].pc \in {"encodeProduct", "encodeLogo"}
  /\ UNCHANGED <<formVars, pickerVars>>
  /\ \/ /\ IF tasks[i].pc = "encodeProduct" THEN ProductEncoded(i) ELSE LogoEncoded(i)
        /\ lastEvent' = Settled(tasks[i].pc, TRUE, null, tasks'[i].calls, FALSE)
     \/ \E err \in Failures :
          /\ tasks' = [tasks EXCEPT
                         ![i].calls = IF tasks[i].pc = "encodeLogo" THEN @ + 1 ELSE @,
                         ![i].pc = IF tasks[i].pc = "encodeProduct"
                                   THEN "encodeLogo" ELSE "generate"]
          /\ UNCHANGED resultVars
          /\ lastEvent' = Settled(tasks[i].pc, FALSE, err, tasks'[i].calls, FALSE)

\* a fileToBase64 promise of invocation i settles
EncodeSettles(i) ==
  /\ tasks[i].pc \in {"encodeProduct", "encodeLogo"}
  /\ UNCHANGED <<formVars, pickerVars>>
  /\ \/ /\ IF tasks[i].pc = "encodeProduct" THEN ProductEncoded(i) ELSE LogoEncoded(i)
        /\ lastEvent' = Settled(tasks[i].pc, TRUE, null, tasks'[i].calls, FALSE)
     \/ \E err \in Failures :
          /\ Catch(i, err)
          /\ lastEvent' = Settled(tasks[i].pc, FALSE, err, tasks[i].calls, TRUE)

\* the generateProductScene promise of invocation i settles
GenerateSettles(i) ==
  /\ tasks[i].pc = "generate"
  /\ UNCHANGED <<formVars, pickerVars>>
  /\ \/ \E r \in Payloads :
          /\ Generated(i, r)
          /\ lastEvent' = Settled("generate", TRUE, r, tasks[i].calls, TRUE)
     \/ \E err \in Failures :
          /\ Catch(i, err)
          /\ lastEvent' = Settled("generate", FALSE, err, tasks[i].calls, TRUE)

\* ------------------------------------------------------------------ ImageUploader
\* both instances given the setter of the product image
onFileChange_SameSetter(p, file) ==
  productImage' = file /\ UNCHANGED logoImage

\* the onFileChange prop of each instance
onFileChange(p, file) ==
  IF p = "product-image"
  THEN productImage' = file /\ UNCHANGED logoImage
  ELSE logoImage' = file /\ UNCHANGED productImage

\* the calls of onFileChange one handler makes, in order
Callbacks(p, args) ==
  IF args = <<>>
  THEN UNCHANGED <<productImage, logoImage>>
  ELSE onFileChange(p, args[Len(args)])

\* new FileReader(); reader.readAsDataURL(file)
StartRead(p, f) ==
  /\ Len(readers[p]) < MaxReads
  /\ readers' = [readers EXCEPT ![p] = Append(@, f)]

\* handleFileChange with no return after its alert
FileChangeCallbacks_NoReturn(file) == <<file>>

\* handleFileChange that reports nothing when the event carries no file
FileChangeCallbacks_SkipsNull(file) ==
  IF file = null \/ ~StartsWithImage(file[1].type) THEN <<>> ELSE <<file>>

\* the calls of onFileChange handleFileChange makes for event.target.files[0]
FileChangeCallbacks(file) ==
  IF file # null /\ ~StartsWithImage(file[1].type) THEN <<>> ELSE <<file>>

\* onChange of the file input: the element already holds the dialog's choice
handleFileChange(p, file) ==
  /\ inputFiles' = [inputFiles EXCEPT ![p] = file]
  /\ IF file # null
     THEN IF ~StartsWithImage(file[1].type)
          THEN UNCHANGED <<preview, readers>>
          ELSE StartRead(p, file[1]) /\ UNCHANGED preview
     ELSE preview' = [preview EXCEPT ![p] = null] /\ UNCHANGED readers
  /\ Callbacks(p, FileChangeCallbacks(file))
  /\ lastEvent' = [kind |-> "change", picker |-> p, file |-> file,
                   alerts |-> IF file # null /\ ~StartsWithImage(file[1].type) THEN 1 ELSE 0,
                   callbacks |-> FileChangeCallbacks(file)]
  /\ UNCHANGED <<subject, scene, resultVars, tasks>>

\* handleDrop whose assignment to the input's files runs handleFileChange too
DropCallbacks_Twice(file) ==
  IF file # null /\ StartsWithImage(file[1].type) THEN <<file, file>> ELSE <<>>

\* the calls of onFileChange handleDrop makes for event.dataTransfer.files[0]
DropCallbacks(file) ==
  IF file # null /\ StartsWithImage(file[1].type) THEN <<file>> ELSE <<>>

\* onDrop that leaves the file input's files as they are
handleDrop_NoSync(p, file) ==
  /\ IF file # null /\ StartsWithImage(file[1].type)
     THEN StartRead(p, file[1])
     ELSE UNCHANGED readers
  /\ UNCHANGED <<preview, inputFiles>>
  /\ Callbacks(p, DropCallbacks(file))
  /\ lastEvent' = [kind |-> "drop", picker |-> p, file |-> file,
                   alerts |-> IF file # null /\ StartsWithImage(file[1].type) THEN 0 ELSE 1,
                   callbacks |-> DropCallbacks(file)]
  /\ UNCHANGED <<subject, scene, resultVars, tasks>>

\* onDrop of the label
handleDrop(p, file) ==
  /\ IF file # null /\ StartsWithImage(file[1].type)
     THEN /\ StartRead(p, file[1])
          /\ inputFiles' = [inputFiles EXCEPT ![p] = file]
     ELSE UNCHANGED <<readers, inputFiles>>
  /\ UNCHANGED preview
  /\ Callbacks(p, DropCallbacks(file))
  /\ lastEvent' = [kind |-> "drop", picker |-> p, file |-> file,
                   alerts |-> IF file # null /\ StartsWithImage(file[1].type) THEN 0 ELSE 1,
                   callbacks |-> DropCallbacks(file)]
  /\ UNCHANGED <<subject, scene, resultVars, tasks>>

\* reader.onloadend of the k-th pending read: reader.result is null after an error
LoadEnd(p, k, ok) ==
  /\ k \in 1..Len(readers[p])
  /\ preview' = [preview EXCEPT ![p] =
                   IF ok THEN Some(ReadAsDataURL(readers[p][k])) ELSE null]
  /\ readers' = [readers EXCEPT ![p] = Remove(@, k)]
  /\ UNCHANGED <<formVars, resultVars, tasks, inputFiles>>
  /\ lastEvent' = [kind |-> "loadend", picker |-> p]

\* ------------------------------------------------------------------ system
OptFiles == {null} \cup {Some(f) : f \in Files}

\* the image the user has at hand for each slot of the form
Pick(p) ==
  IF p = "product-image"
  THEN [name |-> "cat.png",  type |-> <<"image", "png">>]
  ELSE [name |-> "logo.png", type |-> <<"image", "png">>]

\* the whole page; each uploader is offered its slot's image, by dialog or by
\* drop, or has its dialog dismissed
Next ==
  \/ ClickGenerate
  \/ \E t \in Texts : setSubject(t)
  \/ \E t \in Texts : setScene(t)
  \/ \E i \in 1..Len(tasks) : EncodeSettles(i)
  \/ \E i \in 1..Len(tasks) : GenerateSettles(i)
  \/ \E p \in Pickers : handleFileChange(p, Some(Pick(p)))
  \/ \E p \in Pickers : handleFileChange(p, null)
  \/ \E p \in Pickers : handleDrop(p, Some(Pick(p)))
  \/ \E p \in Pickers, k \in 1..MaxReads, ok \in BOOLEAN : LoadEnd(p, k, ok)

Spec == Init /\ [][Next]_vars

\* the texts typed when the uploaders, or the page's progress, are what is
\* checked: none, or a word between blanks
LiveTexts == { <<>>, <<" ", "b", " ">> }

\* the two uploaders under every file and every empty event, beside a form
\* whose texts are edited
PickerNext ==
  \/ \E t \in LiveTexts : setSubject(t)
  \/ \E t \in LiveTexts : setScene(t)
  \/ \E p \in Pickers, file \in OptFiles : handleFileChange(p, file)
  \/ \E p \in Pickers, file \in OptFiles : handleDrop(p, file)
  \/ \E p \in Pickers, k \in 1..MaxReads, ok \in BOOLEAN : LoadEnd(p, k, ok)

PickerSpec == Init /\ [][PickerNext]_vars

\* the two uploaders when every read completes with the file's data
ReadNext ==
  \/ \E p \in Pickers, file \in OptFiles : handleFileChange(p, file)
  \/ \E p \in Pickers, file \in OptFiles : handleDrop(p, file)
  \/ \E p \in Pickers, k \in 1..MaxReads : LoadEnd(p, k, TRUE)

ReadSpec == Init /\ [][ReadNext]_vars

\* the page when every promise an invocation awaits settles in the end: a file
\* read completes or fails, the service call resolves or rejects
LiveNext ==
  \/ ClickGenerate
  \/ \E t \in LiveTexts : setSubject(t)
  \/ \E t \in LiveTexts : setScene(t)
  \/ \E i \in 1..Len(tasks) : EncodeSettles(i)
  \/ \E i \in 1..Len(tasks) : GenerateSettles(i)
  \/ \E p \in Pickers : handleFileChange(p, Some(Pick(p)))
  \/ \E p \in Pickers : handleFileChange(p, null)
  \/ \E p \in Pickers : handleDrop(p, Some(Pick(p)))
  \/ \E p \in Pickers, k \in 1..MaxReads, ok \in BOOLEAN : LoadEnd(p, k, ok)

LiveSpec ==
  /\ Init /\ [][LiveNext]_vars
  /\ WF_vars(\E i \in 1..Len(tasks) : EncodeSettles(i))
  /\ WF_vars(\E i \in 1..Len(tasks) : GenerateSettles(i))

\* ------------------------------------------------------------------ properties
\* the events a user's field update raises
FieldEvents == {"input", "change", "drop"}

\* a submission is pending
Submitting == isLoading \/ tasks # <<>>

\* C1: in every reachable state exactly one block of the result panel is
\* shown: the loading indicator iff loading, otherwise the error panel iff an
\* error is stored, otherwise the result image iff a result is stored,
\* otherwise the placeholder.
C1_ExactlyOneBlock ==
  /\ Cardinality(Shown) = 1
  /\ ShowLoading <=> isLoading
  /\ ShowError <=> (~isLoading /\ error # null)
  /\ ShowResult <=> (~isLoading /\ error = null /\ generatedImage # null)
  /\ ShowPlaceholder <=> (~isLoading /\ error = null /\ generatedImage = null)

\* the error panel alone, after a submission has ended in a failure
C1_Witness ==
  /\ Shown = {"error"}
  /\ lastEvent.kind = "settled"
  /\ ~lastEvent.ok

C3_NoResubmit ==
  /\ [](Len(tasks) <= 1)
  /\ [](Cardinality({i \in 1..Len(tasks) : tasks[i].pc = "generate"}) <= 1)
  /\ [][(lastEvent'.kind = "click" /\ Submitting)
          => (lastEvent'.disabled /\ UNCHANGED <<resultVars, tasks, formVars>>)]_vars

\* a click on a complete form while its submission is awaiting the service
C3_Witness ==
  /\ lastEvent.kind = "click"
  /\ lastEvent.disabled
  /\ isFormValid
  /\ Len(tasks) = 1
  /\ tasks[1].pc = "generate"

\* C4 as stated: every accepted submission has called generateProductScene
\* exactly once by the time it ends.
C4_Original ==
  (lastEvent.kind = "settled" /\ lastEvent.finished) => lastEvent.calls = 1

\* C4, amended: an accepted submission calls generateProductScene at most
\* once: exactly once when both encodes have succeeded, and not at all when
\* an encode fails; the loading flag is set from the accepting click until
\* the call resolves.
C4_AtMostOneCall ==
  /\ \A i \in 1..Len(tasks) :
        /\ tasks[i].calls = (IF tasks[i].pc = "generate" THEN 1 ELSE 0)
        /\ tasks[i].pc = "generate"
             => (tasks[i].productB64 # null /\ tasks[i].logoB64 # null)
        /\ isLoading
  /\ (lastEvent.kind = "click" /\ ~lastEvent.disabled)
        => (isLoading /\ tasks # <<>> /\ tasks[Len(tasks)].calls = 0)
  /\ (lastEvent.kind = "settled" /\ lastEvent.finished)
        => lastEvent.calls = (IF lastEvent.step = "generate" THEN 1 ELSE 0)

\* a submission that ended after its one call of generateProductScene resolved
C4_Witness ==
  /\ lastEvent.kind = "settled"
  /\ lastEvent.finished
  /\ lastEvent.step = "generate"
  /\ lastEvent.ok
  /\ lastEvent.calls = 1

\* C5: when generateProductScene resolves with r the state goes in one step
\* from loading to not loading with stored result r and no error; when it
\* rejects, to not loading with an error stored and no result.
C5_DirectOutcome ==
  [][(lastEvent'.kind = "settled" /\ lastEvent'.step = "generate")
       => /\ isLoading /\ ~isLoading'
          /\ IF lastEvent'.ok
             THEN generatedImage' = Some(lastEvent'.value) /\ error' = null
             ELSE error' # null /\ generatedImage' = null]_vars

\* the second payload stored as the result, the error absent
C5_Witness ==
  /\ lastEvent.kind = "settled"
  /\ lastEvent.step = "generate"
  /\ lastEvent.ok
  /\ lastEvent.value = "scene2.b64"
  /\ generatedImage = Some("scene2.b64")
  /\ Shown = {"result"}

\* a click the Generate button accepts
AcceptedClick == ClickGenerate /\ ~lastEvent'.disabled

\* C6: every submission that is pending ends, with the loading flag cleared
\* and an error or a result stored; no field update made while it is pending
\* ends it, removes it or clears the loading flag; and whenever no
\* submission is pending and the form is complete, a failure shown or not,
\* the button accepts a click.
C6_SubmissionEnds ==
  /\ Submitting ~> (~Submitting /\ (error # null \/ generatedImage # null))
  /\ [][(Submitting /\ lastEvent'.kind \in FieldEvents)
          => (tasks' = tasks /\ isLoading' = isLoading)]_vars
  /\ []((~Submitting /\ isFormValid) => ENABLED AcceptedClick)

\* a submission has ended in a failure, and the click that came while the
\* error panel was shown has started the next one
C6_Witness ==
  /\ lastEvent.kind = "click"
  /\ ~lastEvent.disabled
  /\ lastEvent.shown = {"error"}
  /\ Submitting

\* C7: while a submission is pending, from the accepting click until the
\* submission ends, no error and no result is stored.
C7_PendingIsClean ==
  Submitting => (error = null /\ generatedImage = null)

\* a submission accepted while the result of the one before was shown
C7_Witness ==
  /\ lastEvent.kind = "click"
  /\ ~lastEvent.disabled
  /\ lastEvent.shown = {"result"}
  /\ Submitting
  /\ Shown = {"loading"}

\* C8: a field update changes no other field of the form than its own and
\* leaves the loading flag, the stored error, the stored result and the
\* pending submission as they were.
C8_FieldUpdateFrame ==
  [][(lastEvent'.kind \in FieldEvents)
       => /\ UNCHANGED <<resultVars, tasks>>
          /\ IF lastEvent'.kind = "input"
             THEN /\ UNCHANGED <<productImage, logoImage>>
                  /\ lastEvent'.field = "subject" => UNCHANGED scene
                  /\ lastEvent'.field = "scene" => UNCHANGED subject
             ELSE /\ UNCHANGED <<subject, scene>>
                  /\ lastEvent'.picker = "product-image" => UNCHANGED logoImage
                  /\ lastEvent'.picker = "logo-image" => UNCHANGED productImage]_vars

\* the subject edited while a failure is shown, which stays
C8_Witness ==
  /\ lastEvent.kind = "input"
  /\ lastEvent.field = "subject"
  /\ Shown = {"error"}

\* the file an event carries is present and no image
CarriesNonImage(e) ==
  e.kind \in {"change", "drop"} /\ e.file # null /\ ~StartsWithImage(e.file[1].type)

\* the file an event carries is present and an image
CarriesImage(e) ==
  e.kind \in {"change", "drop"} /\ e.file # null /\ StartsWithImage(e.file[1].type)

\* C9: a file that is no image, chosen in the dialog or dropped, makes the
\* uploader call onFileChange not at all, start no read, and leave both
\* previews and both images of the form as they were.
C9_NonImageRejected ==
  [][CarriesNonImage(lastEvent')
       => /\ lastEvent'.callbacks = <<>>
          /\ lastEvent'.alerts = 1
          /\ UNCHANGED <<preview, readers, productImage, logoImage>>]_vars

\* document.pdf chosen in the product uploader's dialog while it shows a
\* preview and the form holds its image
C9_Witness ==
  /\ CarriesNonImage(lastEvent)
  /\ lastEvent.kind = "change"
  /\ lastEvent.picker = "product-image"
  /\ preview["product-image"] # null
  /\ productImage # null

\* C10: an image file, chosen in the dialog or dropped, makes the uploader
\* call onFileChange exactly once, with that file, in the step of the event:
\* the form holds the file after the step, while the preview is unchanged
\* and the read of the file is pending.
C10_ImageReportedOnce ==
  [][CarriesImage(lastEvent')
       => /\ lastEvent'.callbacks = <<lastEvent'.file>>
          /\ lastEvent'.alerts = 0
          /\ lastEvent'.picker = "product-image" => productImage' = lastEvent'.file
          /\ lastEvent'.picker = "logo-image" => logoImage' = lastEvent'.file
          /\ UNCHANGED preview
          /\ readers'[lastEvent'.picker]
               = Append(readers[lastEvent'.picker], lastEvent'.file[1])]_vars

\* an image dropped on the logo uploader: reported once, its read pending,
\* no preview yet, and the file input synchronized
C10_Witness ==
  /\ CarriesImage(lastEvent)
  /\ lastEvent.kind = "drop"
  /\ lastEvent.picker = "logo-image"
  /\ lastEvent.callbacks = <<logoImage>>
  /\ readers["logo-image"] = <<lastEvent.file[1]>>
  /\ preview["logo-image"] = null
  /\ inputFiles["logo-image"] = lastEvent.file

Slot(p) == IF p = "product-image" THEN productImage ELSE logoImage

\* C12 as stated: whenever an uploader has no read pending, its preview is
\* the data URL of the file it reported last, and absent if it reported
\* absent last.
C12_Original ==
  \A p \in Pickers :
    readers[p] = <<>>
      => preview[p] = (IF Slot(p) = null THEN null
                       ELSE Some(ReadAsDataURL(Slot(p)[1])))

\* C13: a submission encodes the product image, then the logo image, then
\* calls generateProductScene: the logo encode is pending only after the
\* product encode has succeeded, the call only after both have; a failed
\* encode ends the submission with no call made, the loading flag cleared
\* and an error stored, so that after a failed product encode no logo encode
\* is started.
C13_EncodeOrder ==
  /\ \A i \in 1..Len(tasks) :
        /\ tasks[i].pc = "encodeProduct"
             => (tasks[i].productB64 = null /\ tasks[i].logoB64 = null
                 /\ tasks[i].calls = 0)
        /\ tasks[i].pc = "encodeLogo"
             => (tasks[i].productB64 = Some(fileToBase64(tasks[i].productImage[1]))
                 /\ tasks[i].logoB64 = null /\ tasks[i].calls = 0)
        /\ tasks[i].pc = "generate"
             => (tasks[i].productB64 = Some(fileToBase64(tasks[i].productImage[1]))
                 /\ tasks[i].logoB64 = Some(fileToBase64(tasks[i].logoImage[1]))
                 /\ tasks[i].calls = 1)
  /\ (lastEvent.kind = "settled" /\ ~lastEvent.ok
        /\ lastEvent.step \in {"encodeProduct", "encodeLogo"})
        => (lastEvent.finished /\ lastEvent.calls = 0 /\ tasks = <<>>
            /\ ~isLoading /\ error # null /\ generatedImage = null)

\* the logo encode has failed after the product encode succeeded: the
\* submission is over, the error panel shown
C13_Witness ==
  /\ lastEvent.kind = "settled"
  /\ lastEvent.step = "encodeLogo"
  /\ ~lastEvent.ok
  /\ lastEvent.calls = 0
  /\ Shown = {"error"}

\* what the closure of an invocation holds
Captured(t) == <<t.productImage, t.logoImage, t.subject, t.scene>>

\* C14: the invocation an accepted click starts holds the form as it is at
\* the click, keeps it whatever is edited while it is pending, and calls
\* generateProductScene with the encodings of the two files it holds and the
\* two texts it holds, unchanged; both files are present and both texts are
\* non-empty after trimming.
C14_ArgsAsSubmitted ==
  /\ [][(lastEvent'.kind = "click" /\ ~lastEvent'.disabled)
          => Captured(tasks'[Len(tasks')]) = formVars]_vars
  /\ [][(Len(tasks') = Len(tasks))
          => \A i \in 1..Len(tasks) : Captured(tasks'[i]) = Captured(tasks[i])]_vars
  /\ [](\A i \in 1..Len(tasks) :
          /\ tasks[i].productImage # null
          /\ tasks[i].logoImage # null
          /\ Trim(tasks[i].subject) # <<>>
          /\ Trim(tasks[i].scene) # <<>>
          /\ tasks[i].args # null <=> tasks[i].pc = "generate"
          /\ tasks[i].pc = "generate"
               => tasks[i].args =
                    Some(CallArgs(fileToBase64(tasks[i].productImage[1]),
                                  fileToBase64(tasks[i].logoImage[1]),
                                  tasks[i].subject, tasks[i].scene)))

\* the call is outstanding with the texts as submitted, " b " untrimmed and
\* "a", while the form's subject has been emptied and its logo cleared since
C14_Witness ==
  /\ Len(tasks) = 1
  /\ tasks[1].pc = "generate"
  /\ tasks[1].args # null
  /\ tasks[1].args[1].subject = <<" ", "b", " ">>
  /\ tasks[1].args[1].scene = <<"a">>
  /\ tasks[1].args[1].productB64 # tasks[1].args[1].logoB64
  /\ subject = <<>>
  /\ logoImage = null

\* C15: a change event of the file input that carries no file makes the
\* uploader call onFileChange exactly once, with null, and clear its preview;
\* the form's image of that slot is then absent, and as long as an image of
\* the form is absent the form is incomplete and the Generate button
\* disabled; an absent image becomes present only by an event that carries
\* an image.
C15_DismissalClears ==
  /\ [][(lastEvent'.kind = "change" /\ lastEvent'.file = null)
          => /\ lastEvent'.callbacks = <<null>>
             /\ preview'[lastEvent'.picker] = null
             /\ lastEvent'.picker = "product-image" => productImage' = null
             /\ lastEvent'.picker = "logo-image" => logoImage' = null
             /\ ~isFormValid'
             /\ SubmitDisabled']_vars
  /\ []((productImage = null \/ logoImage = null) => (~isFormValid /\ SubmitDisabled))
  /\ [][\A p \in Pickers :
          (Slot(p) = null /\ Slot(p)' # null)
            => (lastEvent'.kind \in {"change", "drop"} /\ lastEvent'.picker = p
                /\ lastEvent'.file # null /\ StartsWithImage(lastEvent'.file[1].type)
                /\ Slot(p)' = lastEvent'.file)]_vars

\* the logo uploader's dialog dismissed on a form that was complete: the
\* logo is gone, the rest of the form is still there, no submission pending
C15_Witness ==
  /\ lastEvent.kind = "change"
  /\ lastEvent.file = null
  /\ lastEvent.picker = "logo-image"
  /\ logoImage = null
  /\ productImage # null
  /\ Trim(subject) # <<>>
  /\ Trim(scene) # <<>>
  /\ ~isLoading
  /\ SubmitDisabled

\* the events of one uploader
PickerEvents == {"change", "drop", "loadend"}

\* C16: an event of one uploader, whether it accepts a file, rejects one,
\* carries none or ends a read, leaves the other uploader's preview, pending
\* reads and file input, the form's image of the other slot, and the
\* subject and scene texts as they were.
C16_PickersIndependent ==
  [][(lastEvent'.kind \in PickerEvents)
       => /\ UNCHANGED <<subject, scene>>
          /\ lastEvent'.picker = "product-image"
               => UNCHANGED <<logoImage, preview["logo-image"],
                              readers["logo-image"], inputFiles["logo-image"]>>
          /\ lastEvent'.picker = "logo-image"
               => UNCHANGED <<productImage, preview["product-image"],
                              readers["product-image"], inputFiles["product-image"]>>]_vars

\* a file accepted by the logo uploader while the product uploader shows the
\* preview of another file, which the form holds, and a subject is typed
C16_Witness ==
  /\ lastEvent.kind \in {"change", "drop"}
  /\ lastEvent.picker = "logo-image"
  /\ lastEvent.callbacks = <<logoImage>>
  /\ logoImage # null
  /\ productImage # null
  /\ productImage # logoImage
  /\ preview["product-image"] = Some(ReadAsDataURL(productImage[1]))
  /\ subject # <<>>

\* C17: after a drop that is accepted the uploader's file input holds the
\* dropped file, the file reported to the parent; a drop that is rejected,
\* of a file that is no image or of no file, leaves the file input's files
\* as they were.
C17_DropSyncsInput ==
  [][(lastEvent'.kind = "drop")
       => IF CarriesImage(lastEvent')
          THEN /\ inputFiles'[lastEvent'.picker] = lastEvent'.file
               /\ lastEvent'.callbacks = <<inputFiles'[lastEvent'.picker]>>
               /\ lastEvent'.picker = "product-image"
                    => productImage' = inputFiles'["product-image"]
               /\ lastEvent'.picker = "logo-image"
                    => logoImage' = inputFiles'["logo-image"]
          ELSE UNCHANGED inputFiles]_vars

\* logo.png dropped on the product uploader while it shows the preview of
\* cat.png: the file input and the form now both hold logo.png
C17_Witness ==
  /\ CarriesImage(lastEvent)
  /\ lastEvent.kind = "drop"
  /\ lastEvent.picker = "product-image"
  /\ lastEvent.file[1].name = "logo.png"
  /\ inputFiles["product-image"] = lastEvent.file
  /\ productImage = lastEvent.file
  /\ preview["product-image"] # null
  /\ preview["product-image"][1].base64 = "cat.png"

====
